---- MODULE Spec2Model ----
(***************************************************************************)
(* A model of bldr's configuration pipeline (src/bldr/command/config.rs):  *)
(* package() loads the default configuration of a package, overlays the   *)
(* discovery and the environment configuration with the shallow           *)
(* toml_merge, converts the result to mustache data and renders every     *)
(* configuration template of the package into the service directory.      *)
(***************************************************************************)
EXTENDS Integers, Sequences, FiniteSets, TLC

VARIABLES
    pkg,            \* the package name package() was called with
    env,            \* the process environment: variable name -> value
    default_file,   \* Option: the text of config/DEFAULT.toml in the package
    pc,             \* the statement of package() that runs next
    result,         \* "running", "Ok", an error kind, or "panic"
    toml,           \* default_toml_value / discovery_toml: the current table
    final_data,     \* Option: the mustache data handed to the templates
    config_files,   \* Option: the listing package.config_files() returned
    idx,            \* the position of the render loop in config_files
    srvc_path,      \* TRUE once create_srvc_path() has succeeded
    start_copied,   \* TRUE once copy_start() has succeeded
    srvc_files,     \* the service directory's config/: file name -> contents
    trace,          \* what the run has done so far, in order
    earlier,        \* Option: what an earlier run of package() has left
    \* the value adapter (toml_table_to_mustache, json_object_to_mustache)
    toml_in,        \* Option: a table in its configuration-format form
    json_in,        \* Option: an object in its JSON form
    toml_out,       \* Option: toml_table_to_mustache(toml_in)
    json_out,       \* Option: json_object_to_mustache(json_in)
    \* download() and file_name() of src/bldr/util/http.rs
    url,            \* the url argument, a sequence of characters
    dl_pc,          \* the statement of download() that runs next
    dl_result,      \* "running", "Ok" or an error kind
    file_name_r,    \* Option: what the last call of file_name returned
    res,            \* the bytes of the response body that are not read yet
    len,            \* the length the last res.read returned
    read_total,     \* the bytes all reads have returned so far
    written,        \* the counter written of download()
    tempfile,       \* Option: the bytes handed to the file <dir>/<name>.tmp
    finalfile,      \* Option: the bytes of the file <dir>/<name>
    dl_trace,       \* what download() has done so far, in order
    \* Cmd of tests/util/command.rs
    child,          \* Option: the child process handle
    status,         \* Option: the exit status
    stdout,         \* Option: the captured standard output
    stderr,         \* Option: the captured standard error
    process,        \* the spawned process: how it ends and what it prints
    cmd_calls,      \* the methods called on the Cmd so far, in order
    cmd_panic       \* "none", or the method that has panicked

package_vars == <<pkg, env, default_file, pc, result, toml, final_data,
                  config_files, idx, srvc_path, start_copied, srvc_files,
                  trace>>

adapter_vars == <<toml_in, json_in, toml_out, json_out>>

download_vars == <<url, dl_pc, dl_result, file_name_r, res, len, read_total,
                   written, tempfile, finalfile, dl_trace>>

cmd_vars == <<child, status, stdout, stderr, process, cmd_calls, cmd_panic>>

vars == <<package_vars, earlier, adapter_vars, download_vars, cmd_vars>>

-----------------------------------------------------------------------------
(* Bounds of the model *)

\* the longest listing config_files() returns
MaxFiles == 2

-----------------------------------------------------------------------------
(* Option<T> *)

None == [some |-> FALSE]
Some(v) == [some |-> TRUE, val |-> v]

-----------------------------------------------------------------------------
(* toml::Value, and BTreeMap<String, toml::Value> as a function from keys *)

String(s) == [kind |-> "String", s |-> s]
Integer(i) == [kind |-> "Integer", i |-> i]
\* a float as its integral part and the digits after the point ("" if none)
Float(w, d) == [kind |-> "Float", whole |-> w, frac |-> d]
Boolean(b) == [kind |-> "Boolean", b |-> b]
Datetime(s) == [kind |-> "Datetime", d |-> s]
Array(a) == [kind |-> "Array", a |-> a]
Table(t) == [kind |-> "Table", t |-> t]

\* BTreeMap::new()
EmptyMap == [k \in {} |-> None]

\* BTreeMap::insert / HashMap::insert
Insert(map, key, value) ==
    [k \in (DOMAIN map) \cup {key} |-> IF k = key THEN value ELSE map[k]]

-----------------------------------------------------------------------------
(* Configuration text: a sequence of lines, each a "key = value" line or  *)
(* a line that is no TOML.                                                *)

KeyVal(k, v) == [syntax |-> "keyval", k |-> k, v |-> v]
Junk == [syntax |-> "junk"]

RECURSIVE parse_lines(_, _, _)
parse_lines(text, i, table) ==
    IF i > Len(text) THEN Some(table)
    ELSE IF text[i].syntax # "keyval" THEN None
    ELSE IF text[i].k \in DOMAIN table THEN None
    ELSE parse_lines(text, i + 1, Insert(table, text[i].k, text[i].v))

\* toml::Parser::new(text).parse(): None when the text has an error
\* (a line that is no key/value pair, or a key defined twice)
toml_parse(text) == parse_lines(text, 1, EmptyMap)

-----------------------------------------------------------------------------
(* toml_merge *)

RECURSIVE merge_loop(_, _, _, _)
merge_loop(keys, left, right, final_map) ==
    IF keys = {} THEN final_map
    ELSE LET left_key == CHOOSE k \in keys : TRUE
         IN  merge_loop(keys \ {left_key}, left, right,
                 IF left_key \in DOMAIN right
                 THEN Insert(final_map, left_key, right[left_key])
                 ELSE Insert(final_map, left_key, left[left_key]))

\* toml_merge, had it gone through the keys of both tables
toml_merge_all_keys(left, right) ==
    merge_loop((DOMAIN left) \cup (DOMAIN right), left, right, EmptyMap)

\* toml_merge, had it merged two tables under one key instead of replacing
toml_merge_deep(left, right) ==
    [k \in DOMAIN left |->
        IF k \notin DOMAIN right THEN left[k]
        ELSE IF left[k].kind = "Table" /\ right[k].kind = "Table"
             THEN Table(merge_loop((DOMAIN left[k].t) \cup (DOMAIN right[k].t),
                                   left[k].t, right[k].t, EmptyMap))
             ELSE right[k]]

toml_merge(left, right) == merge_loop(DOMAIN left, left, right, EmptyMap)

-----------------------------------------------------------------------------
(* mustache::Data and the conversion of a toml table to it *)

StrVal(s) == [data |-> "StrVal", s |-> s]
Bool(b) == [data |-> "Bool", b |-> b]
VecVal(v) == [data |-> "VecVal", v |-> v]
Map(m) == [data |-> "Map", m |-> m]

Digit == <<"0", "1", "2", "3", "4", "5", "6", "7", "8", "9">>

RECURSIVE digits(_)
digits(n) == IF n < 10 THEN Digit[n + 1]
             ELSE digits(n \div 10) \o Digit[(n % 10) + 1]

\* format!("{}", i) of an integer: its decimal representation
format_int(i) == IF i < 0 THEN "-" \o digits(0 - i) ELSE digits(i)

\* format!("{}", f) of a float: no point when there is no fraction
format_float(w, d) == IF d = "" THEN format_int(w) ELSE format_int(w) \o "." \o d

RECURSIVE toml_to_mustache(_)
RECURSIVE table_loop(_, _, _)
RECURSIVE vec_loop(_, _, _)

table_loop(keys, t, hashmap) ==
    IF keys = {} THEN hashmap
    ELSE LET key == CHOOSE k \in keys : TRUE
         IN  table_loop(keys \ {key}, t,
                        Insert(hashmap, key, toml_to_mustache(t[key])))

toml_table_to_mustache(t) == Map(table_loop(DOMAIN t, t, EmptyMap))

vec_loop(a, i, mvec) ==
    IF i > Len(a) THEN mvec
    ELSE vec_loop(a, i + 1, Append(mvec, toml_to_mustache(a[i])))

RECURSIVE vec_loop_front(_, _, _)
vec_loop_front(a, i, mvec) ==
    IF i > Len(a) THEN mvec
    ELSE vec_loop_front(a, i + 1, <<toml_to_mustache(a[i])>> \o mvec)

\* toml_vec_to_mustache, had it put every element in front of the others
toml_vec_to_mustache_reversed(a) == VecVal(vec_loop_front(a, 1, <<>>))

toml_vec_to_mustache(a) == VecVal(vec_loop(a, 1, <<>>))

\* toml_to_mustache, had it made a string of a boolean as of the others
toml_to_mustache_all_strings(value) ==
    CASE value.kind = "String"   -> StrVal(value.s)
      [] value.kind = "Integer"  -> StrVal(format_int(value.i))
      [] value.kind = "Float"    -> StrVal(format_float(value.whole, value.frac))
      [] value.kind = "Boolean"  -> StrVal(IF value.b THEN "true" ELSE "false")
      [] value.kind = "Datetime" -> StrVal(value.d)
      [] value.kind = "Array"    -> toml_vec_to_mustache(value.a)
      [] value.kind = "Table"    -> toml_table_to_mustache(value.t)

toml_to_mustache(value) ==
    CASE value.kind = "String"   -> StrVal(value.s)
      [] value.kind = "Integer"  -> StrVal(format_int(value.i))
      [] value.kind = "Float"    -> StrVal(format_float(value.whole, value.frac))
      [] value.kind = "Boolean"  -> Bool(value.b)
      [] value.kind = "Datetime" -> StrVal(value.d)
      [] value.kind = "Array"    -> toml_vec_to_mustache(value.a)
      [] value.kind = "Table"    -> toml_table_to_mustache(value.t)

-----------------------------------------------------------------------------
(* The environment overlay *)

Ok(v) == [ok |-> TRUE, val |-> v]
Err(e) == [ok |-> FALSE, err |-> e]

\* a value of an environment variable: text, or bytes that are no Unicode
Unicode(text) == [unicode |-> TRUE, text |-> text]
NotUnicode == [unicode |-> FALSE]

\* std::env::var(name): the text of the variable, or an error when the
\* variable is not set or its value is no Unicode
env_var(name, e) ==
    IF name \notin DOMAIN e THEN Err("NotPresent")
    ELSE IF ~e[name].unicode THEN Err("NotUnicode")
    ELSE Ok(e[name].text)

\* str::to_uppercase on the package names of the model
to_uppercase(p) == IF p = "redis" THEN "REDIS" ELSE p

\* env_var_name, had it upper-cased the package name
env_var_name_upper(p) == "BLDR_" \o to_uppercase(p)

\* format!("BLDR_{}", pkg)
env_var_name(p) == "BLDR_" \o p

\* env_to_toml, had it taken a variable that is not set for an error
env_to_toml_unset_is_error(p, e) ==
    IF ~env_var(env_var_name(p), e).ok
    THEN Err("NotPresent")
    ELSE LET toml_value == toml_parse(env_var(env_var_name(p), e).val)
         IN  IF toml_value.some THEN Ok(Some(toml_value.val))
             ELSE Err("TomlParser")

\* env_to_toml, had it taken a text that does not parse for no override
env_to_toml_lenient(p, e) ==
    IF ~env_var(env_var_name(p), e).ok
    THEN Ok(None)
    ELSE LET toml_value == toml_parse(env_var(env_var_name(p), e).val)
         IN  IF toml_value.some THEN Ok(Some(toml_value.val))
             ELSE Ok(None)

\* env_to_toml(pkg) in the environment e
env_to_toml(p, e) ==
    IF ~env_var(env_var_name(p), e).ok
    THEN Ok(None)
    ELSE LET toml_value == toml_parse(env_var(env_var_name(p), e).val)
         IN  IF toml_value.some THEN Ok(Some(toml_value.val))
             ELSE Err("TomlParser")

-----------------------------------------------------------------------------
(* The inputs of a run *)

PkgNames == {"redis", "REDIS"}
EnvVarNames == {"BLDR_redis", "BLDR_REDIS"}

\* all tables with keys among ks and values among vs
TablesOver(ks, vs) == UNION {[d -> vs] : d \in SUBSET ks}

RECURSIVE lines_of(_, _)
lines_of(keys, t) ==
    IF keys = {} THEN <<>>
    ELSE LET k == CHOOSE x \in keys : TRUE
         IN  <<KeyVal(k, t[k])>> \o lines_of(keys \ {k}, t)

\* a configuration text that defines exactly the keys of table t
TextOf(t) == lines_of(DOMAIN t, t)

Nested12 == Table([a |-> Integer(1), b |-> Integer(2)])
Nested9 == Table([a |-> Integer(9)])

DefaultTables == TablesOver({"port", "x"}, {Integer(6379), Nested12})
DiscoveryTables == TablesOver({"x", "extra"}, {Integer(9), Nested9})
EnvTables == TablesOver({"port", "x"}, {Integer(7)})

BadTexts == { <<Junk>>,
              <<KeyVal("port", Integer(7)), KeyVal("port", Integer(7))>> }

DefaultTexts == {TextOf(t) : t \in DefaultTables} \cup {<<Junk>>}
EnvTexts == {TextOf(t) : t \in EnvTables} \cup BadTexts

EnvValues == {Unicode(text) : text \in EnvTexts} \cup {NotUnicode}

\* the environments: no variable of the package set, or exactly one
Environments ==
    {EmptyMap} \cup {[v \in {n} |-> val] : n \in EnvVarNames, val \in EnvValues}

FileNames == <<"redis.conf", "sentinel.conf", "users.acl", "extra.conf">>

\* the listings: some of the first MaxFiles names, each once, in any order
Listings ==
    {l \in UNION {[1..n -> {FileNames[i] : i \in 1..MaxFiles}] : n \in 0..MaxFiles} :
        \A i, j \in DOMAIN l : i # j => l[i] # l[j]}

-----------------------------------------------------------------------------
(* The contents of an output file *)

\* a file an earlier run has left in the service directory
Stale == [written |-> "earlier"]

\* File::create: the file exists and is empty
Created == [written |-> "none"]

\* template.render_data wrote the whole text of template tpl for data d
Rendered(tpl, d) == [written |-> "all", template |-> tpl, data |-> d]

\* a write failed: what was written is not the whole text
Truncated(tpl, d) == [written |-> "part", template |-> tpl, data |-> d]

\* the file after a write through the handle File::create gave: an empty file
\* holds what was written; in a file that held something the text follows it
WriteTo(file, contents) ==
    IF file = Created
    THEN contents
    ELSE [written |-> "after", before |-> file, then |-> contents]

-----------------------------------------------------------------------------
(* package() *)

\* the value adapter is not in use
AdapterIdle ==
    /\ toml_in = None
    /\ json_in = None
    /\ toml_out = None
    /\ json_out = None

\* download() is not in use
DownloadIdle ==
    /\ url = <<>>
    /\ dl_pc = "idle"
    /\ dl_result = "running"
    /\ file_name_r = None
    /\ res = 0
    /\ len = 0
    /\ read_total = 0
    /\ written = 0
    /\ tempfile = None
    /\ finalfile = None
    /\ dl_trace = <<>>

\* no Cmd is in use
CmdIdle ==
    /\ child = None
    /\ status = None
    /\ stdout = None
    /\ stderr = None
    /\ process = None
    /\ cmd_calls = <<>>
    /\ cmd_panic = "none"

\* package() is not in use
PackageIdle ==
    /\ pkg = "redis"
    /\ env = EmptyMap
    /\ default_file = None
    /\ pc = "idle"
    /\ result = "running"
    /\ toml = EmptyMap
    /\ final_data = None
    /\ config_files = None
    /\ idx = 0
    /\ srvc_path = FALSE
    /\ start_copied = FALSE
    /\ srvc_files = EmptyMap
    /\ trace = <<>>
    /\ earlier = None

Init ==
    /\ AdapterIdle
    /\ DownloadIdle
    /\ CmdIdle
    /\ earlier = None
    /\ pkg \in PkgNames
    /\ env \in Environments
    /\ default_file \in {None} \cup {Some(text) : text \in DefaultTexts}
    /\ pc = "latest"
    /\ result = "running"
    /\ toml = EmptyMap
    /\ final_data = None
    /\ config_files = None
    /\ idx = 0
    /\ srvc_path = FALSE
    /\ start_copied = FALSE
    /\ srvc_files \in {EmptyMap, [f \in {FileNames[1]} |-> Stale]}
    /\ trace = <<>>

\* let package = try!(pkg::latest(pkg));
Latest ==
    /\ pc = "latest"
    /\ \E ok \in BOOLEAN :
        /\ pc' = IF ok THEN "create_srvc_path" ELSE "done"
        /\ result' = IF ok THEN result ELSE "Err(latest)"
        /\ trace' = Append(trace, [op |-> "latest", ok |-> ok])
    /\ UNCHANGED <<earlier, adapter_vars, download_vars, cmd_vars,
                   pkg, env, default_file, toml, final_data, config_files,
                   idx, srvc_path, start_copied, srvc_files>>

\* try!(package.create_srvc_path());
CreateSrvcPath ==
    /\ pc = "create_srvc_path"
    /\ \E ok \in BOOLEAN :
        /\ pc' = IF ok THEN "copy_start" ELSE "done"
        /\ result' = IF ok THEN result ELSE "Err(create_srvc_path)"
        /\ srvc_path' = ok
        /\ trace' = Append(trace, [op |-> "create_srvc_path", ok |-> ok])
    /\ UNCHANGED <<earlier, adapter_vars, download_vars, cmd_vars,
                   pkg, env, default_file, toml, final_data, config_files,
                   idx, start_copied, srvc_files>>

\* CopyStart, had a failure of copy_start() not ended the run
CopyStart_unchecked ==
    /\ pc = "copy_start"
    /\ \E ok \in BOOLEAN :
        /\ pc' = "load_default"
        /\ result' = result
        /\ start_copied' = ok
        /\ trace' = Append(trace, [op |-> "copy_start", ok |-> ok])
    /\ UNCHANGED <<earlier, adapter_vars, download_vars, cmd_vars,
                   pkg, env, default_file, toml, final_data, config_files,
                   idx, srvc_path, srvc_files>>

\* try!(package.copy_start());
CopyStart ==
    /\ pc = "copy_start"
    /\ \E ok \in BOOLEAN :
        /\ pc' = IF ok THEN "load_default" ELSE "done"
        /\ result' = IF ok THEN result ELSE "Err(copy_start)"
        /\ start_copied' = ok
        /\ trace' = Append(trace, [op |-> "copy_start", ok |-> ok])
    /\ UNCHANGED <<earlier, adapter_vars, download_vars, cmd_vars,
                   pkg, env, default_file, toml, final_data, config_files,
                   idx, srvc_path, srvc_files>>

\* LoadDefault, had defaults that do not parse counted as an empty table
LoadDefault_unchecked ==
    /\ pc = "load_default"
    /\ \E read_ok \in BOOLEAN :
        LET default_toml_value ==
                IF default_file.some THEN toml_parse(default_file.val) ELSE None
            error == IF ~default_file.some \/ ~read_ok THEN "Err(Io)"
                     ELSE "none"
            parsed == IF default_toml_value.some THEN default_toml_value.val
                      ELSE EmptyMap
        IN  /\ pc' = IF error = "none" THEN "discovery" ELSE "done"
            /\ result' = IF error = "none" THEN result ELSE error
            /\ toml' = IF error = "none" THEN parsed ELSE toml
            /\ trace' = Append(trace, IF error = "none" /\ default_toml_value.some
                                      THEN [op |-> "load_default", ok |-> TRUE,
                                            table |-> parsed]
                                      ELSE [op |-> "load_default", ok |-> FALSE])
    /\ UNCHANGED <<earlier, adapter_vars, download_vars, cmd_vars,
                   pkg, env, default_file, final_data, config_files, idx,
                   srvc_path, start_copied, srvc_files>>

\* lines 39-43: open and read config/DEFAULT.toml of the package, parse it
LoadDefault ==
    /\ pc = "load_default"
    /\ \E read_ok \in BOOLEAN :
        LET default_toml_value ==
                IF default_file.some THEN toml_parse(default_file.val) ELSE None
            error == IF ~default_file.some \/ ~read_ok THEN "Err(Io)"
                     ELSE IF ~default_toml_value.some THEN "Err(TomlParser)"
                     ELSE "none"
        IN  /\ pc' = IF error = "none" THEN "discovery" ELSE "done"
            /\ result' = IF error = "none" THEN result ELSE error
            /\ toml' = IF error = "none" THEN default_toml_value.val ELSE toml
            /\ trace' = Append(trace, IF error = "none"
                                      THEN [op |-> "load_default", ok |-> TRUE,
                                            table |-> default_toml_value.val]
                                      ELSE [op |-> "load_default", ok |-> FALSE])
    /\ UNCHANGED <<earlier, adapter_vars, download_vars, cmd_vars,
                   pkg, env, default_file, final_data, config_files, idx,
                   srvc_path, start_copied, srvc_files>>

\* the record of a call of toml_merge
MergeEvent(left, right, out) ==
    [op |-> "merge", left |-> left, right |-> right, out |-> out]

\* lines 45-50: discovery::etcd::get_config(pkg) answers None or a table,
\* which is merged over the defaults
OverlayDiscovery ==
    /\ pc = "discovery"
    /\ \E fetched \in {None} \cup {Some(t) : t \in DiscoveryTables} :
        LET discovery_toml ==
                IF fetched.some THEN toml_merge(toml, fetched.val) ELSE toml
        IN  /\ toml' = discovery_toml
            /\ trace' = trace \o <<[op |-> "discovery", fetched |-> fetched]>>
                        \o (IF fetched.some
                            THEN <<MergeEvent(toml, fetched.val, discovery_toml)>>
                            ELSE <<>>)
    /\ pc' = "env"
    /\ UNCHANGED <<earlier, adapter_vars, download_vars, cmd_vars,
                   pkg, env, default_file, result, final_data, config_files,
                   idx, srvc_path, start_copied, srvc_files>>

\* OverlayEnvironment, had it merged discovery_toml over the environment
\* table instead of the environment table over discovery_toml
OverlayEnvironment_swapped ==
    /\ pc = "env"
    /\ LET env_toml == env_to_toml(pkg, env)
           merged == IF env_toml.ok /\ env_toml.val.some
                     THEN toml_merge(env_toml.val.val, toml) ELSE toml
       IN  /\ pc' = IF env_toml.ok THEN "config_files" ELSE "done"
           /\ result' = IF env_toml.ok THEN result ELSE "Err(TomlParser)"
           /\ final_data' = IF env_toml.ok
                            THEN Some(toml_table_to_mustache(merged))
                            ELSE final_data
           /\ trace' = trace \o <<[op |-> "env", fetched |-> env_toml]>>
                       \o (IF env_toml.ok /\ env_toml.val.some
                           THEN <<MergeEvent(env_toml.val.val, toml, merged)>>
                           ELSE <<>>)
                       \o (IF env_toml.ok
                           THEN <<[op |-> "convert", table |-> merged]>>
                           ELSE <<>>)
    /\ UNCHANGED <<earlier, adapter_vars, download_vars, cmd_vars,
                   pkg, env, default_file, toml, config_files, idx, srvc_path,
                   start_copied, srvc_files>>

\* lines 52-57: env_to_toml(pkg), the merge of a table it returns over
\* discovery_toml, and the conversion to mustache data
OverlayEnvironment ==
    /\ pc = "env"
    /\ LET env_toml == env_to_toml(pkg, env)
           merged == IF env_toml.ok /\ env_toml.val.some
                     THEN toml_merge(toml, env_toml.val.val) ELSE toml
       IN  /\ pc' = IF env_toml.ok THEN "config_files" ELSE "done"
           /\ result' = IF env_toml.ok THEN result ELSE "Err(TomlParser)"
           /\ final_data' = IF env_toml.ok
                            THEN Some(toml_table_to_mustache(merged))
                            ELSE final_data
           /\ trace' = trace \o <<[op |-> "env", fetched |-> env_toml]>>
                       \o (IF env_toml.ok /\ env_toml.val.some
                           THEN <<MergeEvent(toml, env_toml.val.val, merged)>>
                           ELSE <<>>)
                       \o (IF env_toml.ok
                           THEN <<[op |-> "convert", table |-> merged]>>
                           ELSE <<>>)
    /\ UNCHANGED <<earlier, adapter_vars, download_vars, cmd_vars,
                   pkg, env, default_file, toml, config_files, idx, srvc_path,
                   start_copied, srvc_files>>

\* line 60: let config_files = try!(package.config_files());
ConfigFiles ==
    /\ pc = "config_files"
    /\ \/ /\ \E listing \in Listings :
               /\ config_files' = Some(listing)
               /\ pc' = IF listing = <<>> THEN "configured" ELSE "compile"
          /\ idx' = 1
          /\ result' = result
          /\ trace' = Append(trace, [op |-> "config_files", ok |-> TRUE])
       \/ /\ pc' = "done"
          /\ result' = "Err(config_files)"
          /\ trace' = Append(trace, [op |-> "config_files", ok |-> FALSE])
          /\ UNCHANGED <<config_files, idx>>
    /\ UNCHANGED <<earlier, adapter_vars, download_vars, cmd_vars,
                   pkg, env, default_file, toml, final_data, srvc_path,
                   start_copied, srvc_files>>

\* the file the render loop is at
config == config_files.val[idx]

\* line 62: try!(mustache::compile_path(...)): the template may be missing
\* or may not be a template
Compile ==
    /\ pc = "compile"
    /\ \E outcome \in {"ok", "missing", "syntax"} :
        /\ pc' = IF outcome = "ok" THEN "create" ELSE "done"
        /\ result' = IF outcome = "ok" THEN result ELSE "Err(compile_path)"
        /\ trace' = Append(trace, [op |-> "compile", file |-> config,
                                   ok |-> (outcome = "ok")])
    /\ UNCHANGED <<earlier, adapter_vars, download_vars, cmd_vars,
                   pkg, env, default_file, toml, final_data, config_files,
                   idx, srvc_path, start_copied, srvc_files>>

\* Create, had it opened the output file to append and left in it what an
\* earlier run wrote
Create_append ==
    /\ pc = "create"
    /\ \E ok \in BOOLEAN :
        /\ pc' = IF ok THEN "render" ELSE "done"
        /\ result' = IF ok THEN result ELSE "Err(Io)"
        /\ srvc_files' = IF ok /\ config \notin DOMAIN srvc_files
                         THEN Insert(srvc_files, config, Created)
                         ELSE srvc_files
        /\ trace' = Append(trace, [op |-> "create", file |-> config, ok |-> ok])
    /\ UNCHANGED <<earlier, adapter_vars, download_vars, cmd_vars,
                   pkg, env, default_file, toml, final_data, config_files,
                   idx, srvc_path, start_copied>>

\* line 64: try!(File::create(...)) creates or truncates the output file
Create ==
    /\ pc = "create"
    /\ \E ok \in BOOLEAN :
        /\ pc' = IF ok THEN "render" ELSE "done"
        /\ result' = IF ok THEN result ELSE "Err(Io)"
        /\ srvc_files' = IF ok THEN Insert(srvc_files, config, Created)
                         ELSE srvc_files
        /\ trace' = Append(trace, [op |-> "create", file |-> config, ok |-> ok])
    /\ UNCHANGED <<earlier, adapter_vars, download_vars, cmd_vars,
                   pkg, env, default_file, toml, final_data, config_files,
                   idx, srvc_path, start_copied>>

\* the loop goes to the next file of the listing, or ends
NextFile == IF idx + 1 > Len(config_files.val) THEN "configured" ELSE "compile"

\* line 65: template.render_data(&mut config_file, &final_data); nothing
\* render_data returns is looked at.  A write of the rendered text may fail:
\* then the mustache library either panics or gives up silently, and in the
\* second case the loop goes on.
Render ==
    /\ pc = "render"
    /\ \/ /\ srvc_files' = Insert(srvc_files, config,
                                  WriteTo(srvc_files[config],
                                          Rendered(config, final_data.val)))
          /\ trace' = Append(trace, [op |-> "render", file |-> config,
                                     ok |-> TRUE])
          /\ pc' = NextFile
          /\ idx' = idx + 1
          /\ result' = result
       \/ /\ srvc_files' = Insert(srvc_files, config,
                                  WriteTo(srvc_files[config],
                                          Truncated(config, final_data.val)))
          /\ trace' = Append(trace, [op |-> "render", file |-> config,
                                     ok |-> FALSE])
          /\ \/ pc' = "done" /\ result' = "panic" /\ idx' = idx
             \/ pc' = NextFile /\ result' = result /\ idx' = idx + 1
    /\ UNCHANGED <<earlier, adapter_vars, download_vars, cmd_vars,
                   pkg, env, default_file, toml, final_data, config_files,
                   srvc_path, start_copied>>

\* lines 67-68: Ok(())
Configured ==
    /\ pc = "configured"
    /\ pc' = "done"
    /\ result' = "Ok"
    /\ trace' = Append(trace, [op |-> "configured"])
    /\ UNCHANGED <<earlier, adapter_vars, download_vars, cmd_vars,
                   pkg, env, default_file, toml, final_data, config_files,
                   idx, srvc_path, start_copied, srvc_files>>

Next ==
    \/ Latest
    \/ CreateSrvcPath
    \/ CopyStart
    \/ LoadDefault
    \/ OverlayDiscovery
    \/ OverlayEnvironment
    \/ ConfigFiles
    \/ Compile
    \/ Create
    \/ Render
    \/ Configured

Spec == Init /\ [][Next]_vars

-----------------------------------------------------------------------------
(* Reading the trace *)

\* the positions of the trace where operation o is recorded
At(o) == {i \in DOMAIN trace : trace[i].op = o}

TypeOK ==
    /\ pkg \in PkgNames
    /\ pc \in {"latest", "create_srvc_path", "copy_start", "load_default",
               "discovery", "env", "config_files", "compile", "create",
               "render", "configured", "done"}
    /\ (pc = "done") = (result # "running")

-----------------------------------------------------------------------------
(* toml_merge: the calls package() makes *)

\* C1: the key set of toml_merge(A, B) is exactly the key set of A: every
\* key of A is in the result, and a key only B has is never in the result.
MergeKeepsKeySet ==
    \A i \in At("merge") :
        /\ DOMAIN trace[i].out = DOMAIN trace[i].left
        /\ \A k \in (DOMAIN trace[i].right) \ (DOMAIN trace[i].left) :
               k \notin DOMAIN trace[i].out

\* a merge has run where A has a key B has not, and B a key A has not
MergeKeepsKeySetWitness ==
    \E i \in At("merge") :
        /\ (DOMAIN trace[i].left) \ (DOMAIN trace[i].right) # {}
        /\ (DOMAIN trace[i].right) \ (DOMAIN trace[i].left) # {}

\* C2: for every key k of A, toml_merge(A, B)[k] is B[k] taken whole when B
\* defines k and A[k] otherwise; when both are tables the result is B[k]
\* alone, and a nested key only A[k] defines is lost.
MergeReplacesWhole ==
    /\ \A i \in At("merge") :
           \A k \in DOMAIN trace[i].left :
               /\ k \in DOMAIN trace[i].out
               /\ trace[i].out[k] = IF k \in DOMAIN trace[i].right
                                    THEN trace[i].right[k]
                                    ELSE trace[i].left[k]
    /\ \A i \in At("merge") :
           ( /\ "x" \in DOMAIN trace[i].left
             /\ "x" \in DOMAIN trace[i].right
             /\ trace[i].left["x"] = Nested12
             /\ trace[i].right["x"] = Nested9 )
           => /\ trace[i].out["x"] = Table([a |-> Integer(9)])
              /\ "b" \notin DOMAIN trace[i].out["x"].t

\* a merge has run of {x: {a: 1, b: 2}, port: ..} with {x: {a: 9}}
MergeReplacesWholeWitness ==
    \E i \in At("merge") :
        /\ DOMAIN trace[i].left = {"x", "port"}
        /\ DOMAIN trace[i].right = {"x"}
        /\ trace[i].left["x"] = Nested12
        /\ trace[i].right["x"] = Nested9

-----------------------------------------------------------------------------
(* package(): the order of the phases *)

\* the positions of the trace where an overlay is fetched or merged
Overlays == At("discovery") \cup At("env") \cup At("merge")

\* C3: the discovery overlay is fetched and merged before the environment
\* overlay is fetched and merged, never the reverse; no overlay is fetched or
\* merged before the defaults have been read and parsed successfully; when
\* loading the defaults fails no overlay source is consulted.
OverlayOrder ==
    /\ \A e \in At("env") :
           /\ \E d \in At("discovery") : d < e
           /\ \A d \in At("discovery") : d < e
           /\ \A m \in At("merge") :
                  IF trace[m - 1].op = "discovery" THEN m < e ELSE m = e + 1
    /\ \A o \in Overlays :
           \E l \in At("load_default") : l < o /\ trace[l].ok
    /\ (\E l \in At("load_default") : ~trace[l].ok) =>
           /\ Overlays = {}
           /\ pc = "done"
           /\ result \in {"Err(Io)", "Err(TomlParser)"}

\* a run has merged a discovery table and then an environment table
OverlayOrderWitness ==
    /\ Cardinality(At("merge")) = 2
    /\ At("convert") # {}

\* the defaults table, the discovery answer and the environment answer a
\* run has recorded
DefaultsOf == trace[CHOOSE l \in At("load_default") : TRUE].table
DiscoveryOf == trace[CHOOSE d \in At("discovery") : TRUE].fetched
EnvironmentOf == trace[CHOOSE e \in At("env") : TRUE].fetched.val

\* C4: the table handed to conversion has exactly the keys of the defaults
\* D, and for each key k of D its value is E[k] if the environment table E
\* is present and defines k, else S[k] if the discovery table S is present
\* and defines k, else D[k].
OverlayPrecedence ==
    \A c \in At("convert") :
        LET D == DefaultsOf
            S == DiscoveryOf
            E == EnvironmentOf
            T == trace[c].table
        IN  /\ D = toml_parse(default_file.val).val
            /\ DOMAIN T = DOMAIN D
            /\ \A k \in DOMAIN D :
                   T[k] = IF E.some /\ k \in DOMAIN E.val THEN E.val[k]
                          ELSE IF S.some /\ k \in DOMAIN S.val THEN S.val[k]
                          ELSE D[k]
            /\ final_data = Some(toml_table_to_mustache(T))

\* a table was converted where the defaults have two keys, one of them set
\* by both overlays and the other by none, and discovery has a key of its own
OverlayPrecedenceWitness ==
    /\ At("convert") # {}
    /\ DOMAIN DefaultsOf = {"port", "x"}
    /\ DiscoveryOf.some
    /\ DOMAIN DiscoveryOf.val = {"x", "extra"}
    /\ EnvironmentOf.some
    /\ DOMAIN EnvironmentOf.val = {"x"}

-----------------------------------------------------------------------------
(* The environment overlay *)

\* the name of the variable of a package, spelled out for each package
VerbatimVar == [redis |-> "BLDR_redis", REDIS |-> "BLDR_REDIS"]
UpperCasedVar == [redis |-> "BLDR_REDIS", REDIS |-> "BLDR_REDIS"]

\* what env_to_toml is to return when it reads the variable named v
OverlayUnder(v) ==
    IF v \notin DOMAIN env \/ ~env[v].unicode THEN Ok(None)
    ELSE IF toml_parse(env[v].text).some
         THEN Ok(Some(toml_parse(env[v].text).val))
         ELSE Err("TomlParser")

EnvUnset == VerbatimVar[pkg] \notin DOMAIN env

\* the table the discovery step has produced
DiscoveryTable ==
    IF DiscoveryOf.some THEN toml_merge(DefaultsOf, DiscoveryOf.val)
    ELSE DefaultsOf

\* C6: when the environment variable of the package is not set, env_to_toml
\* returns success with no table, the run continues, and the table that is
\* converted and rendered is the table of the discovery step, unchanged.
EnvUnsetIsIdentity ==
    (EnvUnset /\ At("env") # {}) =>
        /\ \A e \in At("env") : trace[e].fetched = Ok(None)
        /\ result \notin {"Err(TomlParser)", "Err(NotPresent)"}
        /\ \A e \in At("env") : e = Len(trace) => pc = "config_files"
        /\ \A c \in At("convert") : trace[c].table = DiscoveryTable
        /\ final_data = Some(toml_table_to_mustache(DiscoveryTable))
        /\ \A f \in DOMAIN srvc_files :
               srvc_files[f].written \in {"all", "part"}
                   => srvc_files[f].data = toml_table_to_mustache(DiscoveryTable)

\* a run without the variable has rendered a file after a discovery merge
EnvUnsetIsIdentityWitness ==
    /\ EnvUnset
    /\ \E f \in DOMAIN srvc_files : srvc_files[f].written = "all"
    /\ DiscoveryOf.some
    /\ DOMAIN DiscoveryOf.val = {"x"}

\* the variable env_to_toml reads for the package is set to a text that
\* does not parse
EnvMalformed ==
    /\ VerbatimVar[pkg] \in DOMAIN env
    /\ env[VerbatimVar[pkg]].unicode
    /\ ~toml_parse(env[VerbatimVar[pkg]].text).some

\* the positions of the trace where a configuration file is created or
\* written in the service directory
ConfigWrites == At("create") \cup At("render")

\* the service directory holds no configuration file of this run
NothingWritten == \A f \in DOMAIN srvc_files : srvc_files[f] = Stale

\* C7: when the environment variable of the package is set to a text that
\* does not parse, package() ends with the parse error, and no configuration
\* file is created or written in the service directory at any point of the
\* run.
EnvMalformedIsFatal ==
    EnvMalformed =>
        /\ ConfigWrites = {}
        /\ NothingWritten
        /\ At("env") # {} =>
               /\ pc = "done"
               /\ result = "Err(TomlParser)"
               /\ At("convert") = {}
        /\ pc = "done" => result # "Ok"

\* a run has reached the environment overlay with a text that does not parse
EnvMalformedIsFatalWitness ==
    /\ EnvMalformed
    /\ At("env") # {}

-----------------------------------------------------------------------------
(* package(): the render loop *)

\* the positions of the trace where the processing of a listed file failed
FileFailures ==
    {i \in At("compile") \cup At("create") \cup At("render") : ~trace[i].ok}

\* C8 as stated: once the processing of one listed file fails, no later file
\* of the listing is compiled, created or written, package() returns that
\* error, and every output file written for an earlier file of the listing
\* is left in place with its rendered contents.  (A panic of the process is
\* counted here as an end with an error.)
RenderLoopStopsAtFailure ==
    \A i \in FileFailures :
        /\ \A j \in At("compile") \cup ConfigWrites : j <= i
        /\ pc = "done"
        /\ result \in {"Err(compile_path)", "Err(Io)", "panic"}
        /\ \A j \in At("render") :
               (j < i /\ trace[j].ok) =>
                   /\ trace[j].file \in DOMAIN srvc_files
                   /\ srvc_files[trace[j].file]
                          = Rendered(trace[j].file, final_data.val)

\* C9 as stated: every failure while rendering a listed file (a missing
\* template, a template syntax error, a failed write of the rendered text)
\* aborts the invocation; package() returns Ok only if every listed template
\* was compiled and its rendered text written completely to its output file.
RenderFailureAborts ==
    /\ FileFailures # {} => (pc = "done" /\ result # "Ok")
    /\ result = "Ok" =>
           \A i \in DOMAIN config_files.val :
               /\ config_files.val[i] \in DOMAIN srvc_files
               /\ srvc_files[config_files.val[i]]
                      = Rendered(config_files.val[i], final_data.val)

\* C10: create_srvc_path() and copy_start() have both succeeded before any
\* configuration file is created or written; when either fails the run ends
\* with that error and no configuration file is written.
ServicePathsFirst ==
    /\ \A w \in ConfigWrites :
           /\ \E a \in At("create_srvc_path") : a < w /\ trace[a].ok
           /\ \E b \in At("copy_start") : b < w /\ trace[b].ok
    /\ ~NothingWritten => (srvc_path /\ start_copied)
    /\ \A i \in At("create_srvc_path") \cup At("copy_start") :
           ~trace[i].ok =>
               /\ pc = "done"
               /\ result = IF trace[i].op = "copy_start"
                           THEN "Err(copy_start)" ELSE "Err(create_srvc_path)"
               /\ i = Len(trace)
               /\ ConfigWrites = {}
               /\ NothingWritten

\* a run has written a configuration file
ServicePathsFirstWitness ==
    /\ At("render") # {}
    /\ \E f \in DOMAIN srvc_files : srvc_files[f].written = "all"

-----------------------------------------------------------------------------
(* rustc_serialize::json::Json and its conversion to mustache::Data *)

JsonI64(i) == [json |-> "I64", i |-> i]
JsonU64(u) == [json |-> "U64", u |-> u]
JsonF64(w, d) == [json |-> "F64", whole |-> w, frac |-> d]
JsonString(s) == [json |-> "String", s |-> s]
JsonBoolean(b) == [json |-> "Boolean", b |-> b]
JsonArray(a) == [json |-> "Array", a |-> a]
JsonObject(o) == [json |-> "Object", o |-> o]
JsonNull == [json |-> "Null"]

RECURSIVE json_to_mustache(_)
RECURSIVE object_loop(_, _, _)
RECURSIVE json_vec_loop(_, _, _)

object_loop(keys, o, hashmap) ==
    IF keys = {} THEN hashmap
    ELSE LET key == CHOOSE k \in keys : TRUE
         IN  object_loop(keys \ {key}, o,
                         Insert(hashmap, key, json_to_mustache(o[key])))

json_object_to_mustache(o) == Map(object_loop(DOMAIN o, o, EmptyMap))

json_vec_loop(a, i, mvec) ==
    IF i > Len(a) THEN mvec
    ELSE json_vec_loop(a, i + 1, Append(mvec, json_to_mustache(a[i])))

json_vec_to_mustache(a) == VecVal(json_vec_loop(a, 1, <<>>))

\* json_to_mustache, had it printed a float without fraction as "2.0"
json_to_mustache_float_point(value) ==
    CASE value.json = "I64"     -> StrVal(format_int(value.i))
      [] value.json = "U64"     -> StrVal(format_int(value.u))
      [] value.json = "F64"     ->
             StrVal(format_int(value.whole) \o "."
                    \o (IF value.frac = "" THEN "0" ELSE value.frac))
      [] value.json = "String"  -> StrVal(value.s)
      [] value.json = "Boolean" -> Bool(value.b)
      [] value.json = "Array"   -> json_vec_to_mustache(value.a)
      [] value.json = "Object"  -> json_object_to_mustache(value.o)
      [] value.json = "Null"    -> StrVal("")

json_to_mustache(value) ==
    CASE value.json = "I64"     -> StrVal(format_int(value.i))
      [] value.json = "U64"     -> StrVal(format_int(value.u))
      [] value.json = "F64"     -> StrVal(format_float(value.whole, value.frac))
      [] value.json = "String"  -> StrVal(value.s)
      [] value.json = "Boolean" -> Bool(value.b)
      [] value.json = "Array"   -> json_vec_to_mustache(value.a)
      [] value.json = "Object"  -> json_object_to_mustache(value.o)
      [] value.json = "Null"    -> StrVal("")

-----------------------------------------------------------------------------
(* The value adapter on its own: the inputs and the two conversions *)

\* the longest list of the inputs
MaxList == 2

TomlScalars ==
    { String("no"), Integer(42), Integer(0 - 7), Float(1, "5"), Float(2, ""),
      Boolean(TRUE), Boolean(FALSE), Datetime("1979-05-27T07:32:00Z") }

JsonScalars ==
    { JsonString("no"), JsonU64(42), JsonI64(0 - 7), JsonF64(1, "5"),
      JsonF64(2, ""), JsonBoolean(TRUE), JsonBoolean(FALSE), JsonNull }

\* the lists of at most MaxList elements among es
ListsOver(es) == UNION {[1..n -> es] : n \in 0..MaxList}

\* a TOML array holds values of one kind
TomlArrays ==
    {Array(a) : a \in {l \in ListsOver({String("snooze"), String("looze"),
                                        Boolean(TRUE)}) :
                          \A i, j \in DOMAIN l : l[i].kind = l[j].kind}}

JsonArrays ==
    {JsonArray(a) : a \in ListsOver({JsonString("snooze"), JsonString("looze"),
                                     JsonBoolean(TRUE)})}

TomlValues ==
    TomlScalars \cup TomlArrays
    \cup {Table([left |-> v]) : v \in TomlScalars \cup TomlArrays}

JsonValues ==
    JsonScalars \cup JsonArrays
    \cup {JsonObject([left |-> v]) : v \in JsonScalars \cup JsonArrays}

TomlInputs ==
    {EmptyMap} \cup {[k \in {"winks"} |-> v] : v \in TomlValues}
    \cup {[daemonize |-> v, winks |-> w] :
              v \in {String("no"), Boolean(TRUE)}, w \in TomlScalars}

JsonInputs ==
    {EmptyMap} \cup {[k \in {"winks"} |-> v] : v \in JsonValues}
    \cup {[daemonize |-> v, winks |-> w] :
              v \in {JsonString("no"), JsonBoolean(TRUE)}, w \in JsonScalars}

InitAdapter ==
    /\ PackageIdle
    /\ DownloadIdle
    /\ CmdIdle
    /\ toml_in \in {Some(t) : t \in TomlInputs}
    /\ json_in \in {Some(j) : j \in JsonInputs}
    /\ toml_out = None
    /\ json_out = None

\* let data = toml_table_to_mustache(toml_value);
TomlTableToMustache ==
    /\ toml_in.some
    /\ ~toml_out.some
    /\ toml_out' = Some(toml_table_to_mustache(toml_in.val))
    /\ UNCHANGED <<package_vars, earlier, download_vars, cmd_vars,
                   toml_in, json_in, json_out>>

\* let data = json_object_to_mustache(json_data.as_object().unwrap().clone());
JsonObjectToMustache ==
    /\ json_in.some
    /\ ~json_out.some
    /\ json_out' = Some(json_object_to_mustache(json_in.val))
    /\ UNCHANGED <<package_vars, earlier, download_vars, cmd_vars,
                   toml_in, json_in, toml_out>>

NextAdapter ==
    \/ TomlTableToMustache
    \/ JsonObjectToMustache

SpecAdapter == InitAdapter /\ [][NextAdapter]_vars

-----------------------------------------------------------------------------
(* The value adapter: scalars *)

\* what the adapter is to make of the TOML scalar v is d
TomlScalarAdapted(v, d) ==
    /\ (d.data = "Bool") = (v.kind = "Boolean")
    /\ (d.data = "StrVal") = (v.kind # "Boolean")
    /\ v.kind = "Boolean" => d = Bool(v.b)
    /\ v.kind = "String" => d = StrVal(v.s)
    /\ v.kind = "Integer" => d = StrVal(ToString(v.i))
    /\ v = Integer(42) => d = StrVal("42")

\* what the adapter is to make of the JSON scalar v is d
JsonScalarAdapted(v, d) ==
    /\ (d.data = "Bool") = (v.json = "Boolean")
    /\ (d.data = "StrVal") = (v.json # "Boolean")
    /\ v.json = "Boolean" => d = Bool(v.b)
    /\ v.json = "String" => d = StrVal(v.s)
    /\ v.json = "I64" => d = StrVal(ToString(v.i))
    /\ v.json = "U64" => d = StrVal(ToString(v.u))
    /\ v.json = "Null" => d = StrVal("")

\* every scalar of the TOML value v is adapted in the data d made of v
RECURSIVE TomlScalarsIn(_, _)
TomlScalarsIn(v, d) ==
    CASE v.kind = "Array" ->
             /\ d.data = "VecVal"
             /\ Len(d.v) = Len(v.a)
             /\ \A i \in DOMAIN v.a : TomlScalarsIn(v.a[i], d.v[i])
      [] v.kind = "Table" ->
             /\ d.data = "Map"
             /\ DOMAIN d.m = DOMAIN v.t
             /\ \A k \in DOMAIN v.t : TomlScalarsIn(v.t[k], d.m[k])
      [] OTHER -> TomlScalarAdapted(v, d)

\* every scalar of the JSON value v is adapted in the data d made of v
RECURSIVE JsonScalarsIn(_, _)
JsonScalarsIn(v, d) ==
    CASE v.json = "Array" ->
             /\ d.data = "VecVal"
             /\ Len(d.v) = Len(v.a)
             /\ \A i \in DOMAIN v.a : JsonScalarsIn(v.a[i], d.v[i])
      [] v.json = "Object" ->
             /\ d.data = "Map"
             /\ DOMAIN d.m = DOMAIN v.o
             /\ \A k \in DOMAIN v.o : JsonScalarsIn(v.o[k], d.m[k])
      [] OTHER -> JsonScalarAdapted(v, d)

\* C11: of the scalars the adapter keeps only booleans typed: a Boolean
\* becomes the same boolean, a String the same string, an Integer the string
\* of its decimal representation (42 becomes "42"), a Float and a Timestamp
\* strings, a JSON Null the empty string; no other scalar yields a boolean
\* and no Boolean yields a string.
OnlyBooleansStayTyped ==
    /\ toml_out.some => TomlScalarsIn(Table(toml_in.val), toml_out.val)
    /\ json_out.some => JsonScalarsIn(JsonObject(json_in.val), json_out.val)

\* both conversions have run, on a table with a boolean and the integer 42
\* and on an object with a null
OnlyBooleansStayTypedWitness ==
    /\ toml_out.some
    /\ json_out.some
    /\ toml_in.val = [daemonize |-> Boolean(TRUE), winks |-> Integer(42)]
    /\ json_in.val = [daemonize |-> JsonBoolean(TRUE), winks |-> JsonNull]

-----------------------------------------------------------------------------
(* The value adapter: lists and tables *)

\* the data d has the lists and tables of the TOML value v, at every depth
RECURSIVE TomlShapeKept(_, _)
TomlShapeKept(v, d) ==
    CASE v.kind = "Array" ->
             /\ d.data = "VecVal"
             /\ Len(d.v) = Len(v.a)
             /\ \A i \in DOMAIN v.a :
                    /\ d.v[i] = toml_to_mustache(v.a[i])
                    /\ TomlShapeKept(v.a[i], d.v[i])
      [] v.kind = "Table" ->
             /\ d.data = "Map"
             /\ DOMAIN d.m = DOMAIN v.t
             /\ \A k \in DOMAIN v.t :
                    /\ d.m[k] = toml_to_mustache(v.t[k])
                    /\ TomlShapeKept(v.t[k], d.m[k])
      [] OTHER -> d.data \in {"StrVal", "Bool"}

\* the data d has the lists and objects of the JSON value v, at every depth
RECURSIVE JsonShapeKept(_, _)
JsonShapeKept(v, d) ==
    CASE v.json = "Array" ->
             /\ d.data = "VecVal"
             /\ Len(d.v) = Len(v.a)
             /\ \A i \in DOMAIN v.a :
                    /\ d.v[i] = json_to_mustache(v.a[i])
                    /\ JsonShapeKept(v.a[i], d.v[i])
      [] v.json = "Object" ->
             /\ d.data = "Map"
             /\ DOMAIN d.m = DOMAIN v.o
             /\ \A k \in DOMAIN v.o :
                    /\ d.m[k] = json_to_mustache(v.o[k])
                    /\ JsonShapeKept(v.o[k], d.m[k])
      [] OTHER -> d.data \in {"StrVal", "Bool"}

\* C12: for a list the adapter returns a sequence of the same length whose
\* i-th element is the adaptation of the i-th element of the list; for a
\* table it returns a mapping with exactly the keys of the table, each
\* mapped to the adaptation of its value; and so at every nesting depth.
ListsAndTablesKept ==
    /\ toml_out.some => TomlShapeKept(Table(toml_in.val), toml_out.val)
    /\ json_out.some => JsonShapeKept(JsonObject(json_in.val), json_out.val)

\* a table was converted that holds a table that holds a list of two
\* different elements
ListsAndTablesKeptWitness ==
    /\ toml_out.some
    /\ toml_in.val = [winks |-> Table([left |->
                         Array(<<String("snooze"), String("looze")>>)])]

-----------------------------------------------------------------------------
(* The value adapter: the two forms of one value tree *)

\* the TOML value t and the JSON value j are the two forms of one value
\* tree built of strings, integers, floats, booleans, lists and tables
RECURSIVE SameTree(_, _)
SameTree(t, j) ==
    CASE t.kind = "String"  -> j.json = "String" /\ j.s = t.s
      [] t.kind = "Integer" -> \/ j.json = "I64" /\ j.i = t.i
                               \/ j.json = "U64" /\ j.u = t.i
      [] t.kind = "Float"   -> /\ j.json = "F64"
                               /\ j.whole = t.whole
                               /\ j.frac = t.frac
      [] t.kind = "Boolean" -> j.json = "Boolean" /\ j.b = t.b
      [] t.kind = "Array"   -> /\ j.json = "Array"
                               /\ Len(j.a) = Len(t.a)
                               /\ \A i \in DOMAIN t.a : SameTree(t.a[i], j.a[i])
      [] t.kind = "Table"   -> /\ j.json = "Object"
                               /\ DOMAIN j.o = DOMAIN t.t
                               /\ \A k \in DOMAIN t.t : SameTree(t.t[k], j.o[k])
      [] OTHER -> FALSE

\* C13: for every value tree built of strings, integers, floats, booleans,
\* lists and tables, toml_table_to_mustache of its TOML form and
\* json_object_to_mustache of its JSON form are the same template data (and
\* so render any template to the same text).
BothFormsSameData ==
    ( /\ toml_out.some
      /\ json_out.some
      /\ SameTree(Table(toml_in.val), JsonObject(json_in.val)) )
    => toml_out.val = json_out.val

\* both forms of a table with a string and a float without fraction were
\* converted
BothFormsSameDataWitness ==
    /\ toml_out.some
    /\ json_out.some
    /\ toml_in.val = [daemonize |-> String("no"), winks |-> Float(2, "")]
    /\ SameTree(Table(toml_in.val), JsonObject(json_in.val))

\* both forms of a table that holds a table that holds a list were converted
BothFormsNested ==
    /\ toml_out.some
    /\ json_out.some
    /\ toml_in.val = [winks |-> Table([left |->
                         Array(<<String("snooze"), String("looze")>>)])]
    /\ SameTree(Table(toml_in.val), JsonObject(json_in.val))

-----------------------------------------------------------------------------
(* src/bldr/util/http.rs: file_name *)

\* str::split(sep) from character i on: cur is the segment being read
RECURSIVE split_loop(_, _, _, _, _)
split_loop(str, sep, i, cur, parts) ==
    IF i > Len(str) THEN Append(parts, cur)
    ELSE IF str[i] = sep
         THEN split_loop(str, sep, i + 1, <<>>, Append(parts, cur))
         ELSE split_loop(str, sep, i + 1, Append(cur, str[i]), parts)

\* url.split("/"): the segments between the separators; one empty segment
\* for an empty string
split(str, sep) == split_loop(str, sep, 1, <<>>, <<>>)

\* Iterator::last()
last(parts) == IF parts = <<>> THEN None ELSE Some(parts[Len(parts)])

\* Iterator::next() on a fresh iterator
first(parts) == IF parts = <<>> THEN None ELSE Some(parts[1])

\* Option::ok_or(err)
ok_or(option, err) == IF option.some THEN Ok(option.val) ELSE Err(err)

\* file_name, had it taken the first segment of the url
file_name_first(u) == ok_or(first(split(u, "/")), "CannotParseFileName")

\* file_name(url)
file_name(u) == ok_or(last(split(u, "/")), "CannotParseFileName")

-----------------------------------------------------------------------------
(* src/bldr/util/http.rs: download *)

\* the longest response body, in bytes
MaxBody == 3

\* the most segments of the path of a url
MaxSegments == 2

\* let mut buf = [0u8; 100000];
BufSize == 100000

Min(a, b) == IF a < b THEN a ELSE b

Segments == {<<>>, <<"a">>, <<"a", ".", "b">>}

RECURSIVE join(_, _)
join(segs, sep) ==
    IF Len(segs) = 1 THEN segs[1]
    ELSE segs[1] \o <<sep>> \o join(Tail(segs), sep)

\* the urls: a path of segments, on its own or after "h://x/"
Urls ==
    {prefix \o join(segs, "/") :
        prefix \in {<<>>, <<"h", ":", "/", "/", "x", "/">>},
        segs \in UNION {[1..n -> Segments] : n \in 1..MaxSegments}}

\* client.get(url) takes an absolute url only: a scheme, "://" and a host
can_send(u) ==
    /\ Len(u) >= 5
    /\ SubSeq(u, 1, 4) = <<"h", ":", "/", "/">>
    /\ u[5] # "/"

InitDownload ==
    /\ PackageIdle
    /\ AdapterIdle
    /\ CmdIdle
    /\ url \in Urls
    /\ dl_pc = "start"
    /\ dl_result = "running"
    /\ file_name_r = None
    /\ res = 0
    /\ len = 0
    /\ read_total = 0
    /\ written = 0
    /\ tempfile = None
    /\ finalfile = None
    /\ dl_trace = <<>>

\* the unit tests call file_name(url) on its own
FileNameCall ==
    /\ dl_pc = "start"
    /\ file_name_r' = Some(file_name(url))
    /\ dl_pc' = "returned"
    /\ dl_trace' = Append(dl_trace, [op |-> "file_name"])
    /\ UNCHANGED <<package_vars, earlier, adapter_vars, cmd_vars, url,
                   dl_result, res, len, read_total, written, tempfile,
                   finalfile>>

\* line 27: let mut res = try!(client.get(url).send()); the body of the
\* response has any length up to MaxBody
Send ==
    /\ dl_pc = "start"
    /\ \/ /\ can_send(url)
          /\ \E body \in 0..MaxBody : res' = body
          /\ dl_pc' = "file_name"
          /\ dl_result' = dl_result
          /\ dl_trace' = Append(dl_trace, [op |-> "send", ok |-> TRUE])
       \/ /\ dl_pc' = "done"
          /\ dl_result' = "Err(Http)"
          /\ dl_trace' = Append(dl_trace, [op |-> "send", ok |-> FALSE])
          /\ res' = res
    /\ UNCHANGED <<package_vars, earlier, adapter_vars, cmd_vars, url,
                   file_name_r, len, read_total, written, tempfile, finalfile>>

\* line 48: let file_name = try!(file_name(url));
FileName ==
    /\ dl_pc = "file_name"
    /\ file_name_r' = Some(file_name(url))
    /\ dl_pc' = IF file_name(url).ok THEN "create" ELSE "done"
    /\ dl_result' = IF file_name(url).ok THEN dl_result
                    ELSE "Err(CannotParseFileName)"
    /\ dl_trace' = Append(dl_trace, [op |-> "file_name"])
    /\ UNCHANGED <<package_vars, earlier, adapter_vars, cmd_vars, url, res,
                   len, read_total, written, tempfile, finalfile>>

\* lines 49-53: let f = try!(File::create(&tempfile)); written = 0
CreateTemp ==
    /\ dl_pc = "create"
    /\ \E ok \in BOOLEAN :
        /\ dl_pc' = IF ok THEN "read" ELSE "done"
        /\ dl_result' = IF ok THEN dl_result ELSE "Err(Io)"
        /\ tempfile' = IF ok THEN Some(0) ELSE tempfile
        /\ dl_trace' = Append(dl_trace, [op |-> "create", ok |-> ok])
    /\ written' = 0
    /\ UNCHANGED <<package_vars, earlier, adapter_vars, cmd_vars, url,
                   file_name_r, res, len, read_total, finalfile>>

\* Read, had an error of the read ended the loop like the end of the stream
Read_error_breaks ==
    /\ dl_pc = "read"
    /\ \/ /\ \E n \in 0..Min(res, BufSize) :
               /\ (n = 0) = (res = 0)
               /\ len' = n
               /\ res' = res - n
               /\ read_total' = read_total + n
               /\ dl_trace' = Append(dl_trace,
                                     [op |-> "read", ok |-> TRUE, n |-> n])
          /\ dl_pc' = "match"
          /\ dl_result' = dl_result
       \/ /\ dl_pc' = "rename"
          /\ dl_result' = dl_result
          /\ dl_trace' = Append(dl_trace, [op |-> "read", ok |-> FALSE])
          /\ UNCHANGED <<len, res, read_total>>
    /\ UNCHANGED <<package_vars, earlier, adapter_vars, cmd_vars, url,
                   file_name_r, written, tempfile, finalfile>>

\* line 56: let len = try!(res.read(&mut buf)); a read returns some of the
\* bytes that are left, at most the buffer, and 0 only at the end
Read ==
    /\ dl_pc = "read"
    /\ \/ /\ \E n \in 0..Min(res, BufSize) :
               /\ (n = 0) = (res = 0)
               /\ len' = n
               /\ res' = res - n
               /\ read_total' = read_total + n
               /\ dl_trace' = Append(dl_trace,
                                     [op |-> "read", ok |-> TRUE, n |-> n])
          /\ dl_pc' = "match"
          /\ dl_result' = dl_result
       \/ /\ dl_pc' = "done"
          /\ dl_result' = "Err(Io)"
          /\ dl_trace' = Append(dl_trace, [op |-> "read", ok |-> FALSE])
          /\ UNCHANGED <<len, res, read_total>>
    /\ UNCHANGED <<package_vars, earlier, adapter_vars, cmd_vars, url,
                   file_name_r, written, tempfile, finalfile>>

\* lines 58-61: 0 => { progress(status, written, &length, true); break; }
EndOfStream ==
    /\ dl_pc = "match"
    /\ len = 0
    /\ dl_pc' = "rename"
    /\ dl_trace' = Append(dl_trace, [op |-> "progress", written |-> written,
                                     finished |-> TRUE])
    /\ UNCHANGED <<package_vars, earlier, adapter_vars, cmd_vars, url,
                   dl_result, file_name_r, res, len, read_total, written,
                   tempfile, finalfile>>

\* Write, had it not looked for a write of no bytes
Write_zero_continues ==
    /\ dl_pc = "match"
    /\ len # 0
    /\ \/ /\ \E bytes_written \in 0..len :
               /\ dl_trace' =
                      Append(dl_trace, [op |-> "write", ok |-> TRUE,
                                        n |-> bytes_written, of |-> len])
                      \o <<[op |-> "progress",
                            written |-> written + bytes_written,
                            finished |-> FALSE]>>
               /\ dl_pc' = "read"
               /\ dl_result' = dl_result
               /\ written' = written + bytes_written
               /\ tempfile' = Some(tempfile.val + bytes_written)
       \/ /\ dl_pc' = "done"
          /\ dl_result' = "Err(Io)"
          /\ dl_trace' = Append(dl_trace, [op |-> "write", ok |-> FALSE])
          /\ UNCHANGED <<written, tempfile>>
    /\ UNCHANGED <<package_vars, earlier, adapter_vars, cmd_vars, url,
                   file_name_r, res, len, read_total, finalfile>>

\* lines 62-69: writer.write(&buf[0 .. len]) fails, or takes some of the
\* len bytes, or none of them
Write ==
    /\ dl_pc = "match"
    /\ len # 0
    /\ \/ /\ \E bytes_written \in 0..len :
               /\ dl_trace' =
                      Append(dl_trace, [op |-> "write", ok |-> TRUE,
                                        n |-> bytes_written, of |-> len])
                      \o (IF bytes_written = 0 THEN <<>>
                          ELSE <<[op |-> "progress",
                                  written |-> written + bytes_written,
                                  finished |-> FALSE]>>)
               /\ dl_pc' = IF bytes_written = 0 THEN "done" ELSE "read"
               /\ dl_result' = IF bytes_written = 0
                               THEN "Err(WriteSyncFailed)" ELSE dl_result
               /\ written' = written + bytes_written
               /\ tempfile' = Some(tempfile.val + bytes_written)
       \/ /\ dl_pc' = "done"
          /\ dl_result' = "Err(Io)"
          /\ dl_trace' = Append(dl_trace, [op |-> "write", ok |-> FALSE])
          /\ UNCHANGED <<written, tempfile>>
    /\ UNCHANGED <<package_vars, earlier, adapter_vars, cmd_vars, url,
                   file_name_r, res, len, read_total, finalfile>>

\* lines 72-73: try!(fs::rename(&tempfile, &finalfile)); Ok(finalfile).
\* With an empty file name the final path is the directory, and the rename
\* of a file to it fails.
Rename ==
    /\ dl_pc = "rename"
    /\ \E ok \in BOOLEAN :
        /\ ok => file_name_r.val.val # <<>>
        /\ dl_result' = IF ok THEN "Ok" ELSE "Err(Io)"
        /\ finalfile' = IF ok THEN tempfile ELSE finalfile
        /\ tempfile' = IF ok THEN None ELSE tempfile
        /\ dl_trace' = Append(dl_trace, [op |-> "rename", ok |-> ok])
    /\ dl_pc' = "done"
    /\ UNCHANGED <<package_vars, earlier, adapter_vars, cmd_vars, url,
                   file_name_r, res, len, read_total, written>>

NextDownload ==
    \/ FileNameCall
    \/ Send
    \/ FileName
    \/ CreateTemp
    \/ Read
    \/ EndOfStream
    \/ Write
    \/ Rename

SpecDownload == InitDownload /\ [][NextDownload]_vars

\* the positions of dl_trace where operation o is recorded
DlAt(o) == {i \in DOMAIN dl_trace : dl_trace[i].op = o}

-----------------------------------------------------------------------------
(* file_name: the last segment of the url *)

\* the text of u after its last "/", or all of u when it has none
AfterLastSlash(u) ==
    LET slashes == {i \in DOMAIN u : u[i] = "/"}
        from == IF slashes = {} THEN 1
                ELSE (CHOOSE i \in slashes : \A j \in slashes : j <= i) + 1
    IN  SubSeq(u, from, Len(u))

\* C14: for every url whose last "/"-separated segment is not empty,
\* file_name returns exactly that segment: the text after the final "/", or
\* the whole string when it contains no "/".
FileNameIsLastSegment ==
    (file_name_r.some /\ AfterLastSlash(url) # <<>>)
        => file_name_r.val = Ok(AfterLastSlash(url))

\* file_name has run on "h://x/a/a.b"
FileNameIsLastSegmentWitness ==
    /\ file_name_r.some
    /\ url = <<"h", ":", "/", "/", "x", "/", "a", "/", "a", ".", "b">>

\* file_name has run on a string without "/"
FileNameOfJustName ==
    /\ file_name_r.some
    /\ url = <<"a", ".", "b">>

\* C15 as stated: for every url whose last "/"-separated segment is empty
\* (the empty string, or a url that ends in "/"), file_name returns the
\* missing-filename error, and download returns that error without creating
\* a temporary file or a final file.
EmptyFileNameIsError ==
    (file_name_r.some /\ AfterLastSlash(url) = <<>>) =>
        /\ file_name_r.val = Err("CannotParseFileName")
        /\ DlAt("send") # {} =>
               /\ dl_pc = "done"
               /\ dl_result = "Err(CannotParseFileName)"
               /\ DlAt("create") = {}
               /\ tempfile = None
               /\ finalfile = None

-----------------------------------------------------------------------------
(* download: the loop and the rename *)

\* the positions of dl_trace where a read has returned no bytes
EndReads == {i \in DlAt("read") : dl_trace[i].ok /\ dl_trace[i].n = 0}

\* the positions of dl_trace where a write has taken no bytes
StalledWrites == {i \in DlAt("write") : dl_trace[i].ok /\ dl_trace[i].n = 0}

\* the positions of dl_trace where a read or a write has failed, or a write
\* has taken no bytes
StreamErrors ==
    {i \in DlAt("read") \cup DlAt("write") : ~dl_trace[i].ok}
    \cup StalledWrites

StalledWriterAndEndOfStream ==
    /\ \A w \in StalledWrites :
           /\ dl_trace[w - 1].op = "read"
           /\ dl_trace[w - 1].n > 0
           /\ w = Len(dl_trace)
           /\ dl_pc = "done"
           /\ dl_result = "Err(WriteSyncFailed)"
    /\ dl_result = "Err(WriteSyncFailed)" =>
           Len(dl_trace) \in StalledWrites
    /\ \A e \in EndReads :
           /\ e = Len(dl_trace) => (dl_pc = "match" /\ dl_result = "running")
           /\ e + 1 <= Len(dl_trace) =>
                  dl_trace[e + 1] = [op |-> "progress", written |-> written,
                                     finished |-> TRUE]
           /\ e + 1 = Len(dl_trace) =>
                  (dl_pc = "rename" /\ dl_result = "running")
           /\ e + 2 <= Len(dl_trace) =>
                  /\ dl_trace[e + 2].op = "rename"
                  /\ e + 2 = Len(dl_trace)
                  /\ dl_trace[e + 2].ok => dl_result = "Ok"

\* a write has taken no bytes
StalledWriterWitness ==
    /\ StalledWrites # {}
    /\ written > 0

\* C19 as stated: when download returns Ok, every byte read from the
\* response body has been handed to the file writer: written is the total of
\* the bytes all reads returned, also when a write takes fewer bytes than the
\* chunk it was given.
EveryByteWritten ==
    dl_result = "Ok" =>
        /\ written = read_total
        /\ finalfile = Some(read_total)

-----------------------------------------------------------------------------
(* tests/util/command.rs: Cmd *)

\* the most calls made on one Cmd
MaxCalls == 3

\* bytes a process writes to a pipe: text, or bytes that are no UTF-8
Utf8(text) == [utf8 |-> TRUE, text |-> text]
NotUtf8 == [utf8 |-> FALSE]
Outputs == {Utf8(""), Utf8("ok"), NotUtf8}

\* String::from_utf8
from_utf8(bytes) ==
    IF bytes.utf8 THEN Ok(bytes.text) ELSE Err("FromUtf8Error")

\* std::process::ExitStatus: an exit code, or the signal that ended it
Exited(code) == [code |-> Some(code), signal |-> None]
Signaled(sig) == [code |-> None, signal |-> Some(sig)]
SIGKILL == 9

\* the processes a Command starts: what it exits with and writes when it is
\* left alone
Processes ==
    [code : {0, 1}, out : Outputs, err : Outputs, killed : {FALSE}]

\* lines 125-128: spawn has returned Ok(Cmd{ child: Some(child), status:
\* None, stdout: None, stderr: None })
spawn ==
    /\ process \in {Some(p) : p \in Processes}
    /\ child = Some("Child")
    /\ status = None
    /\ stdout = None
    /\ stderr = None
    /\ cmd_calls = <<>>
    /\ cmd_panic = "none"

InitCmd ==
    /\ PackageIdle
    /\ AdapterIdle
    /\ DownloadIdle
    /\ spawn

\* a test calls a method of the Cmd it holds; a panic ends the test
Call(method) ==
    /\ cmd_panic = "none"
    /\ Len(cmd_calls) < MaxCalls
    /\ cmd_calls' = Append(cmd_calls, method)
    /\ UNCHANGED <<package_vars, earlier, adapter_vars, download_vars>>

\* lines 38-46: kill: child.kill() on the child held, whose error is a
\* panic; a panic when no child is held.  No field of the Cmd is assigned.
kill ==
    /\ Call("kill")
    /\ IF child.some
       THEN \/ /\ process' = Some([process.val EXCEPT !.killed = TRUE])
               /\ cmd_panic' = "none"
            \/ /\ cmd_panic' = "io::Error"
               /\ process' = process
       ELSE /\ cmd_panic' = "Cannot kill a child that does not exist"
            /\ process' = process
    /\ UNCHANGED <<child, status, stdout, stderr>>

\* lines 48-53: stdout
stdout_ ==
    /\ Call("stdout")
    /\ cmd_panic' = IF stdout.some THEN "none" ELSE "No stdout available"
    /\ UNCHANGED <<child, status, stdout, stderr, process>>

\* lines 55-60: stderr
stderr_ ==
    /\ Call("stderr")
    /\ cmd_panic' = IF stderr.some THEN "none" ELSE "No stderr available"
    /\ UNCHANGED <<child, status, stdout, stderr, process>>

\* lines 62-67: status
status_ ==
    /\ Call("status")
    /\ cmd_panic' = IF status.some THEN "none" ELSE "No status available"
    /\ UNCHANGED <<child, status, stdout, stderr, process>>

\* what child.wait_with_output() reports of a process: its own exit, or the
\* signal of a kill that reached it before it had exited
statuses(p) ==
    IF p.killed THEN {Signaled(SIGKILL), Exited(p.code)} ELSE {Exited(p.code)}

\* lines 69-83: wait_with_output: the child is taken out of the Cmd first;
\* then the wait, the status, the two conversions and the two outputs, a
\* panic leaving what was assigned before it
wait_with_output ==
    /\ Call("wait_with_output")
    /\ child' = None
    /\ process' = process
    /\ IF ~child.some
       THEN /\ cmd_panic' = "unwrap on a None value"
            /\ UNCHANGED <<status, stdout, stderr>>
       ELSE \/ /\ cmd_panic' = "io::Error"
               /\ UNCHANGED <<status, stdout, stderr>>
            \/ /\ status' \in {Some(s) : s \in statuses(process.val)}
               /\ LET out == from_utf8(process.val.out)
                      err == from_utf8(process.val.err)
                  IN  IF ~out.ok \/ ~err.ok
                      THEN /\ cmd_panic' = "FromUtf8Error"
                           /\ UNCHANGED <<stdout, stderr>>
                      ELSE /\ cmd_panic' = "none"
                           /\ stdout' = Some(out.val)
                           /\ stderr' = Some(err.val)

NextCmd ==
    \/ kill
    \/ stdout_
    \/ stderr_
    \/ status_
    \/ wait_with_output

SpecCmd == InitCmd /\ [][NextCmd]_vars

\* the calls made so far that have returned
Returned ==
    IF cmd_panic = "none"
    THEN cmd_calls
    ELSE SubSeq(cmd_calls, 1, Len(cmd_calls) - 1)

\* in every state that is not a panic the child is held exactly when status,
\* stdout and stderr are all absent
ChildOrOutput ==
    cmd_panic = "none" =>
        (child.some <=> (status = None /\ stdout = None /\ stderr = None))

\* C20 as stated: once kill or wait_with_output has returned on a Cmd that
\* spawn gave, status() returns the exit status without a panic; and in every
\* state that is not a panic the child is held exactly when status, stdout
\* and stderr are all absent.
StatusAfterWaitOrKill ==
    /\ (\E i \in DOMAIN Returned : Returned[i] \in {"kill", "wait_with_output"})
           => /\ status.some
              /\ cmd_panic # "No status available"
    /\ ChildOrOutput

\* status() has returned the status after a wait
StatusAfterWait ==
    /\ cmd_panic = "none"
    /\ cmd_calls = <<"wait_with_output", "status">>

-----------------------------------------------------------------------------
(* package() called a second time *)

\* what a run of package() leaves: its result, its steps and the files of the
\* service directory
Left == [result |-> result, trace |-> trace, srvc_files |-> srvc_files]

\* one package, its defaults and its environment, for two runs
InitRerun ==
    /\ Init
    /\ pkg = "redis"
    /\ env \in {EmptyMap,
                [v \in {"BLDR_redis"} |->
                    Unicode(TextOf([k \in {"port"} |-> Integer(7)]))]}
    /\ default_file = Some(TextOf([k \in {"port", "x"} |-> Integer(6379)]))

\* the discovery answers of the first runs that are followed into a second
RerunDiscovery == {None, Some([k \in {"x"} |-> Integer(9)])}

\* lines 30-69: package(pkg) is called again once the first call has
\* returned: its locals are new, the service directory and the environment
\* are as the first call left them
Rerun ==
    /\ pc = "done"
    /\ earlier = None
    /\ \A i \in At("discovery") : trace[i].fetched \in RerunDiscovery
    /\ earlier' = Some(Left)
    /\ pc' = "latest"
    /\ result' = "running"
    /\ toml' = EmptyMap
    /\ final_data' = None
    /\ config_files' = None
    /\ idx' = 0
    /\ trace' = <<>>
    /\ UNCHANGED <<adapter_vars, download_vars, cmd_vars, pkg, env,
                   default_file, srvc_path, start_copied, srvc_files>>

NextRerun ==
    \/ Next
    \/ Rerun

SpecRerun == InitRerun /\ [][NextRerun]_vars

\* the run that left r returned Ok and none of its writes failed
FaultFree(r) ==
    /\ r.result = "Ok"
    /\ \A i \in DOMAIN r.trace :
           r.trace[i].op = "render" => r.trace[i].ok

\* the answer of discovery in the run that left r
DiscoveryIn(r) ==
    r.trace[CHOOSE i \in DOMAIN r.trace : r.trace[i].op = "discovery"].fetched

\* the output files the run that left r wrote
OutputsIn(r) ==
    {r.trace[i].file : i \in {j \in DOMAIN r.trace : r.trace[j].op = "render"}}

\* the two runs had the same discovery value and the same templates
SameInputs(r1, r2) ==
    /\ DiscoveryIn(r1) = DiscoveryIn(r2)
    /\ OutputsIn(r1) = OutputsIn(r2)

\* what the second run has made of output file f depends on nothing the
\* first run left: a file this run has created holds what this run wrote,
\* any other file is as it was
OwnOutput(f) ==
    LET creates == {i \in At("create") : trace[i].file = f /\ trace[i].ok}
        renders == {i \in At("render") : trace[i].file = f}
    IN  IF creates = {}
        THEN /\ f \in DOMAIN earlier.val.srvc_files
             /\ srvc_files[f] = earlier.val.srvc_files[f]
        ELSE IF renders = {}
        THEN srvc_files[f] = Created
        ELSE \E i \in renders :
                 srvc_files[f] = IF trace[i].ok
                                 THEN Rendered(f, final_data.val)
                                 ELSE Truncated(f, final_data.val)

\* C18: two complete runs of package() for one package with the same
\* defaults, discovery value, environment value and templates leave the same
\* set of output files with the same contents; and whatever the first run
\* left, each file the second run creates holds only what the second run
\* wrote.
RerunSameOutput ==
    earlier.some =>
        /\ \A f \in DOMAIN srvc_files : OwnOutput(f)
        /\ DOMAIN earlier.val.srvc_files \subseteq DOMAIN srvc_files
        /\ (/\ pc = "done"
            /\ FaultFree(earlier.val)
            /\ FaultFree(Left)
            /\ SameInputs(earlier.val, Left))
               => srvc_files = earlier.val.srvc_files

\* two runs with a discovery table have each written both files
RerunSameOutputWitness ==
    /\ earlier.some
    /\ pc = "done"
    /\ FaultFree(earlier.val)
    /\ FaultFree(Left)
    /\ SameInputs(earlier.val, Left)
    /\ DiscoveryIn(Left).some
    /\ Cardinality(OutputsIn(Left)) = 2
    /\ \A f \in OutputsIn(Left) :
           srvc_files[f] = Rendered(f, final_data.val)

\* the second run has written over a file the first left cut short
RerunOverTruncated ==
    /\ earlier.some
    /\ pc = "done"
    /\ result = "Ok"
    /\ \E f \in OutputsIn(Left) :
           /\ f \in DOMAIN earlier.val.srvc_files
           /\ earlier.val.srvc_files[f].written = "part"
           /\ srvc_files[f] = Rendered(f, final_data.val)

====
